---- MODULE Spec2Model ----
(***************************************************************************)
(* Model of the OData connector (src/src/main.js): schema derivation       *)
(* (getFields and its helpers) and row projection (responseToRows).        *)
(*                                                                         *)
(* JavaScript strings that the code splits, joins or slices are sequences  *)
(* of one-character strings, so that split/join/substr/replace are         *)
(* computed and not assumed.  OData type names and Data Studio field       *)
(* types are only compared for equality in the code and are plain TLA+     *)
(* strings.                                                                *)
(***************************************************************************)
EXTENDS Integers, Sequences, FiniteSets, TLC

VARIABLES
    id,            \* main.js:13   the global column-id counter
    metaDataMap,   \* main.js:16   own properties set on the global Map object
    user,          \* PropertiesService.getUserProperties(): persisted strings
    forms,         \* the catalog forms the server publishes
    calls,         \* number of handler calls made so far
    call           \* the last handler call: its inputs and what it returned

vars == <<id, metaDataMap, user, forms, calls, call>>

----------------------------------------------------------------------------
(* String primitives of JavaScript used by the code.                       *)

\* null / undefined (never equal to a string: its element is not a character)
NULL == <<"null">>

\* s.startsWith(sep) at 1-based position i
MatchAt(s, sep, i) ==
    /\ i + Len(sep) - 1 <= Len(s)
    /\ SubSeq(s, i, i + Len(sep) - 1) = sep

RECURSIVE SeparatorsFrom(_, _, _)
\* the positions of the occurrences of sep in s that split finds, scanning
\* from position i on: the leftmost one, then those after its end
SeparatorsFrom(s, sep, i) ==
    LET M == {j \in i..(Len(s) - Len(sep) + 1) : MatchAt(s, sep, j)}
    IN  IF M = {} THEN <<>>
        ELSE LET j == CHOOSE m \in M : \A n \in M : m <= n
             IN  <<j>> \o SeparatorsFrom(s, sep, j + Len(sep))

\* String.prototype.split(sep) for a non-empty separator
split(s, sep) ==
    LET at == SeparatorsFrom(s, sep, 1)
        n  == Len(at)
    IN  [k \in 1..(n + 1) |->
            SubSeq(s, IF k = 1 THEN 1 ELSE at[k - 1] + Len(sep),
                      IF k = n + 1 THEN Len(s) ELSE at[k] - 1)]

RECURSIVE join(_, _)
\* Array.prototype.join(sep)
join(parts, sep) ==
    IF Len(parts) = 0 THEN <<>>
    ELSE IF Len(parts) = 1 THEN parts[1]
    ELSE parts[1] \o sep \o join(Tail(parts), sep)

\* String.prototype.substr(n) / substring(n, length)
substr(s, n) == SubSeq(s, n + 1, Len(s))

\* s.replace(/-/g, "_")
replaceDash(s) == [i \in 1..Len(s) |-> IF s[i] = "-" THEN "_" ELSE s[i]]

\* Array.prototype.pop(): the array without its last element
pop(a) == SubSeq(a, 1, Len(a) - 1)

----------------------------------------------------------------------------
(* Literals of the code.                                                   *)

SUBMISSIONS == <<"S","u","b","m","i","s","s","i","o","n","s">>
UNIQUE_SEPARATOR == <<"M","Y","_","S","E","P","A","R","A","T","O","R">>
INSTANCE_ID == <<"i","n","s","t","a","n","c","e","I","D">>
SLASH == <<"/">>
DOT == <<".">>
DASH == <<"-">>
COLON == <<":">>
ACCURACY_MARKER == <<"-","a","c","c","u","r","a","c","y">>
SYSTEM_SUBMITTER == <<"_","_","s","y","s","t","e","m","/","s","u","b","m","i","t","t","e","r","N","a","m","e">>
SYSTEM_REVIEW == <<"_","_","s","y","s","t","e","m","/","r","e","v","i","e","w","S","t","a","t","e">>
SYSTEM_DATE == <<"_","_","s","y","s","t","e","m","/","s","u","b","m","i","s","s","i","o","n","D","a","t","e">>
ROW_ID == <<"_","_","i","d">>
LINK_PREFIX == <<"_","_","S","u","b","m","i","s","s","i","o","n","s">>
LINK_SUFFIX == <<"i","d">>

----------------------------------------------------------------------------
(* MetadataIndex: the global metaDataMap.  The code creates a Map but      *)
(* reads and writes it with the bracket operator, so entries are ordinary  *)
(* object properties: Map.prototype.clear() does not remove them, and a    *)
(* read of a name that was never written finds what the object inherits    *)
(* from Map.prototype (a function for "keys", "values", "get", ...).       *)

KEYS == <<"k","e","y","s">>

\* inherited, writable method names that occur among the model's names
InheritedNames == {KEYS}

\* metaDataMap[name]
metaDataGet(map, name) ==
    IF name \in DOMAIN map THEN map[name]
    ELSE IF name \in InheritedNames THEN "function"
    ELSE "undefined"

\* metaDataMap.clear(): empties the Map's entries, of which there are none;
\* the properties stay
metaDataClear(map) == map

\* index of the last descriptor named n that is a structure or a repeat
LastStructural(json, n) ==
    LET S == {i \in 1..Len(json) :
                 /\ json[i].name = n
                 /\ json[i].type \in {"structure", "repeat"}}
    IN  IF S = {} THEN 0 ELSE CHOOSE i \in S : \A j \in S : j <= i

\* the first loop of getFields: metaDataMap[json[i].name] = json[i].type for
\* every descriptor of type structure or repeat
buildMetaData(map, json) ==
    LET recorded == {json[i].name : i \in {j \in 1..Len(json) :
                         json[j].type \in {"structure", "repeat"}}}
    IN  [n \in (DOMAIN map) \cup recorded |->
            IF n \in recorded THEN json[LastStructural(json, n)].type
            ELSE map[n]]

----------------------------------------------------------------------------
(* SchemaBuilder.                                                          *)

\* a lookup that answers (dimension, TEXT) for every type (a variant C11 must
\* tell apart)
getGDSTypeAllText(OdataType) == [conceptType |-> "dimension", dataType |-> "TEXT"]

getGDSType(OdataType) ==
    CASE OdataType = "int"      -> [conceptType |-> "metric",    dataType |-> "NUMBER"]
      [] OdataType = "string"   -> [conceptType |-> "dimension", dataType |-> "TEXT"]
      [] OdataType = "boolean"  -> [conceptType |-> "metric",    dataType |-> "BOOLEAN"]
      [] OdataType = "decimal"  -> [conceptType |-> "metric",    dataType |-> "NUMBER"]
      [] OdataType = "date"     -> [conceptType |-> "dimension", dataType |-> "YEAR_MONTH_DAY"]
      [] OdataType = "time"     -> [conceptType |-> "dimension", dataType |-> "TEXT"]
      [] OdataType = "dateTime" -> [conceptType |-> "dimension", dataType |-> "YEAR_MONTH_DAY_HOUR"]
      [] OdataType = "geopoint" -> [conceptType |-> "dimension", dataType |-> "LATITUDE_LONGITUDE"]
      [] OdataType = "geotrace" -> [conceptType |-> "dimension", dataType |-> "TEXT"]
      [] OdataType = "geoshape" -> [conceptType |-> "dimension", dataType |-> "TEXT"]
      [] OdataType = "binary"   -> [conceptType |-> "dimension", dataType |-> "URL"]
      [] OdataType = "barcode"  -> [conceptType |-> "dimension", dataType |-> "TEXT"]
      [] OdataType = "intent"   -> [conceptType |-> "dimension", dataType |-> "TEXT"]
      [] OTHER                  -> [conceptType |-> "dimension", dataType |-> "TEXT"]

\* fields.newDimension() / newMetric() .setId(..).setName(..).setType(..)
Field(fid, name, concept, type) ==
    [id |-> fid, name |-> name, concept |-> concept, type |-> type]

\* addSubmissionFields with the row id emitted first (a variant the schema
\* order of C8 must tell apart)
addSubmissionFieldsIdFirst(seed) ==
    [ fields |-> << Field(seed,     ROW_ID,           "dimension", getGDSType("string").dataType),
                    Field(seed + 1, SYSTEM_SUBMITTER, "dimension", getGDSType("string").dataType),
                    Field(seed + 2, SYSTEM_REVIEW,    "dimension", getGDSType("string").dataType),
                    Field(seed + 3, SYSTEM_DATE,      "dimension", getGDSType("dateTime").dataType) >>,
      id |-> seed + 4 ]

\* addSubmissionFields: four dimensions, id++ after each
addSubmissionFields(seed) ==
    [ fields |-> << Field(seed,     SYSTEM_SUBMITTER, "dimension", getGDSType("string").dataType),
                    Field(seed + 1, SYSTEM_REVIEW,    "dimension", getGDSType("string").dataType),
                    Field(seed + 2, ROW_ID,           "dimension", getGDSType("string").dataType),
                    Field(seed + 3, SYSTEM_DATE,      "dimension", getGDSType("dateTime").dataType) >>,
      id |-> seed + 4 ]

\* a tableKey loop that pops nothing (a variant C6 must tell apart)
keepTrailingGroups(tableKey, map) == tableKey

RECURSIVE dropTrailingGroups(_, _)
\* while (tableKey.length > 0 && metaDataMap[last] === "structure") tableKey.pop()
dropTrailingGroups(tableKey, map) ==
    IF Len(tableKey) > 0 /\ metaDataGet(map, tableKey[Len(tableKey)]) = "structure"
    THEN dropTrailingGroups(pop(tableKey), map)
    ELSE tableKey

\* a linkage key that ignores the table (a variant C7 must tell apart)
rootLinkageKey(table, map) == LINK_PREFIX \o DASH \o LINK_SUFFIX

\* the key of the parent-linkage id as addRepeatFields computes it:
\* '__Submissions-id' or '__Submissions-<tableKey>-id'
linkageKey(table, map) ==
    LET parts    == split(table, DOT)
        noLast   == pop(parts)                          \* splice(-1, 1)
        noFirst  == SubSeq(noLast, 2, Len(noLast))      \* splice(0, 1)
        tableKey == join(dropTrailingGroups(noFirst, map), DASH)
    IN  IF Len(tableKey) > 0
        THEN LINK_PREFIX \o DASH \o tableKey \o DASH \o LINK_SUFFIX
        ELSE LINK_PREFIX \o DASH \o LINK_SUFFIX

\* a repeat table that gets no synthetic column (a variant C23 must tell apart)
addRepeatFieldsNone(table, map, seed) == [fields |-> <<>>, id |-> seed]

\* addRepeatFields: the linkage id and the row id, both under the table's path
addRepeatFields(table, map, seed) ==
    LET parts     == split(table, DOT)
        tablePath == join(SubSeq(parts, 2, Len(parts)), SLASH)   \* slice(1).join("/")
    IN  [ fields |-> << Field(seed, tablePath \o SLASH \o linkageKey(table, map),
                              "dimension", getGDSType("string").dataType),
                        Field(seed + 1, tablePath \o SLASH \o ROW_ID,
                              "dimension", getGDSType("string").dataType) >>,
          id |-> seed + 2 ]

RECURSIVE popUnrecorded(_, _)
\* a classify loop that pops unrecorded names only (a variant C5 must tell apart)
popUnrecorded(segs, map) ==
    IF Len(segs) > 0 /\ metaDataGet(map, segs[Len(segs)]) = "undefined"
    THEN popUnrecorded(pop(segs), map)
    ELSE segs

RECURSIVE popToRepeat(_, _)
\* while (length > 0 && (metaDataMap[last] == null || metaDataMap[last] === "structure")) pop()
popToRepeat(segs, map) ==
    IF Len(segs) > 0 /\ metaDataGet(map, segs[Len(segs)]) \in {"undefined", "structure"}
    THEN popToRepeat(pop(segs), map)
    ELSE segs

\* classifyFieldTable: the table a descriptor path belongs to (schemaTableName)
schemaTableName(path, map) ==
    LET kept == popToRepeat(split(path, SLASH), map)
    IN  join(SubSeq(kept, 2, Len(kept)), DOT)           \* splice(0, 1); join(".")

\* tableNames as getFields uses it: split, drop 'Submissions', substr(12)
knownTables(tableNamesProp) ==
    LET all  == split(tableNamesProp, UNIQUE_SEPARATOR)
        kept == SelectSeq(all, LAMBDA e : e # SUBMISSIONS)
    IN  [i \in 1..Len(kept) |-> substr(kept[i], 12)]

isTableInTableNames(tableNames, table) ==
    \E i \in 1..Len(tableNames) : tableNames[i] = table

\* does the second loop of getFields keep descriptor d?
keepsDescriptor(d, userRequestedTable, tableNames, map) ==
    /\ d.type # "structure"
    /\ d.name # INSTANCE_ID
    /\ d.type # "repeat"
    /\ IF userRequestedTable = SUBMISSIONS
       THEN ~isTableInTableNames(tableNames, schemaTableName(d.path, map))
       ELSE schemaTableName(d.path, map) = substr(userRequestedTable, 12)

\* leaf columns whose accuracy column reuses the geo column's id (a variant
\* C9 must tell apart)
leafFieldsSharedId(d, fid) ==
    LET typesObj    == getGDSType(d.type)
        nameOfField == replaceDash(substr(d.path, 1))
    IN  IF typesObj.dataType = "LATITUDE_LONGITUDE"
        THEN << Field(fid, nameOfField, "dimension", typesObj.dataType),
                Field(fid, nameOfField \o ACCURACY_MARKER, "metric", "NUMBER") >>
        ELSE << Field(fid, nameOfField, typesObj.conceptType, typesObj.dataType) >>

\* leaf columns without the accuracy column (a variant C10 must tell apart)
leafFieldsNoAccuracy(d, fid) ==
    LET typesObj    == getGDSType(d.type)
        nameOfField == replaceDash(substr(d.path, 1))
    IN  << Field(fid, nameOfField, typesObj.conceptType, typesObj.dataType) >>

\* the columns one kept descriptor adds, the first of them with id fid
leafFields(d, fid) ==
    LET typesObj    == getGDSType(d.type)
        nameOfField == replaceDash(substr(d.path, 1))
    IN  IF typesObj.conceptType = "dimension"
        THEN IF typesObj.dataType = "LATITUDE_LONGITUDE"
             THEN << Field(fid, nameOfField, "dimension", typesObj.dataType),
                     Field(fid + 1, nameOfField \o ACCURACY_MARKER, "metric", "NUMBER") >>
             ELSE << Field(fid, nameOfField, "dimension", typesObj.dataType) >>
        ELSE << Field(fid, nameOfField, "metric", typesObj.dataType) >>

RECURSIVE leafLoop(_, _, _, _, _, _)
\* the second loop of getFields from descriptor i on, the counter being fid
leafLoop(json, i, userRequestedTable, tableNames, map, fid) ==
    IF i > Len(json) THEN [fields |-> <<>>, id |-> fid]
    ELSE IF keepsDescriptor(json[i], userRequestedTable, tableNames, map)
         THEN LET here == leafFields(json[i], fid)
                  rest == leafLoop(json, i + 1, userRequestedTable, tableNames, map,
                                   fid + Len(here))
              IN  [fields |-> here \o rest.fields, id |-> rest.id]
         ELSE leafLoop(json, i + 1, userRequestedTable, tableNames, map, fid)

\* getFields after testSchema returned json: what it returns (or that it
\* throws), and the globals it leaves behind.  A null 'table' property makes
\* addRepeatFields throw on table.split; a null 'tableNames' property makes
\* getFields throw after the synthetic columns were added.
getFields(json, userRequestedTable, tableNamesProp, map0, seed) ==
    LET map == buildMetaData(metaDataClear(map0), json)
    IN  IF userRequestedTable = NULL
        THEN [status |-> "error", fields |-> <<>>, id |-> seed, map |-> map]
        ELSE LET synth == IF userRequestedTable = SUBMISSIONS
                          THEN addSubmissionFields(seed)
                          ELSE addRepeatFields(userRequestedTable, map, seed)
             IN  IF tableNamesProp = NULL
                 THEN [status |-> "error", fields |-> <<>>, id |-> synth.id, map |-> map]
                 ELSE LET leaves == leafLoop(json, 1, userRequestedTable,
                                             knownTables(tableNamesProp), map, synth.id)
                      IN  [status |-> "ok", fields |-> synth.fields \o leaves.fields,
                           id |-> leaves.id, map |-> map]

----------------------------------------------------------------------------
(* JSON values of a submission record, tagged by their JavaScript type.    *)
(* A number carries its decimal text, which is what join() and string      *)
(* concatenation make of it.                                               *)

JNull      == [t |-> "null"]
JUndefined == [t |-> "undefined"]
JFunction  == [t |-> "function"]
JStr(s)    == [t |-> "string", s |-> s]
JNum(s)    == [t |-> "number", s |-> s]
JObj(f)    == [t |-> "object", f |-> f]
JArr(a)    == [t |-> "array", a |-> a]
\* the text JSON.stringify(v) returns
JText(v)   == [t |-> "string", json |-> v]

UNDEFINED_TEXT == <<"u","n","d","e","f","i","n","e","d">>
OBJECT_TEXT == <<"[","o","b","j","e","c","t"," ","O","b","j","e","c","t","]">>
PROPERTIES == <<"p","r","o","p","e","r","t","i","e","s">>
ACCURACY == <<"a","c","c","u","r","a","c","y">>
COORDINATES == <<"c","o","o","r","d","i","n","a","t","e","s">>
TYPE_KEY == <<"t","y","p","e">>
V1 == <<"/","v","1">>
MEDIA_DL == <<"/","#","/","d","l">>
PROJECTS == <<"p","r","o","j","e","c","t","s">>
FORMS == <<"f","o","r","m","s">>
UUID_PREFIX == <<"u","u","i","d","%","3","A">>
ATTACHMENTS == <<"a","t","t","a","c","h","m","e","n","t","s">>
COMMA_SPACE == <<",", " ">>

\* names that every array inherits from Array.prototype, among the model's names
ArrayInheritedNames == {KEYS}

RECURSIVE textOf(_), joinTexts(_, _)
\* String(v) for a value put into a string concatenation or a join
textOf(v) ==
    CASE v.t \in {"string", "number"} /\ "s" \in DOMAIN v -> v.s
      [] v.t = "undefined" -> UNDEFINED_TEXT
      [] v.t = "null" -> <<"n","u","l","l">>
      [] v.t = "array" -> joinTexts(v.a, <<",">>)
      [] OTHER -> OBJECT_TEXT

\* a.join(sep) for an array of values: null and undefined elements give ""
joinTexts(a, sep) ==
    join([i \in 1..Len(a) |-> IF a[i].t \in {"null", "undefined"} THEN <<>>
                                                                  ELSE textOf(a[i])], sep)

\* s.includes(sub)
includes(s, sub) == \E i \in 1..(Len(s) + 1) : MatchAt(s, sub, i)

\* s.replace(/[chars]/g, "")
strip(s, chars) == SelectSeq(s, LAMBDA c : c \notin chars)

\* name in v, for a non-null v: "yes", "no", or "throws" for a primitive
hasProperty(v, name) ==
    CASE v.t = "object"   -> IF name \in DOMAIN v.f THEN "yes" ELSE "no"
      [] v.t = "array"    -> IF name \in ArrayInheritedNames THEN "yes" ELSE "no"
      [] v.t = "function" -> "no"
      [] OTHER            -> "throws"

\* v[name] after name in v held
getProperty(v, name) ==
    IF v.t = "object" THEN v.f[name] ELSE JFunction

----------------------------------------------------------------------------
(* PathParser and ValueConverter.                                          *)

\* parseURL(path) = [base_URL, project_id, form_id]
parseURL(path) ==
    LET parts_of_path == split(path, SLASH)
        length        == Len(parts_of_path)
        \* parts[k] of the 0-based array, undefined when out of range
        at(k) == IF k >= 0 /\ k < length THEN parts_of_path[k + 1] ELSE UNDEFINED_TEXT
        last  == at(length - 1)
    IN  << at(0) \o <<"/", "/">> \o join(SubSeq(parts_of_path, 3, length - 4), SLASH),
           at(length - 3),
           SubSeq(last, 1, Len(last) - 4) >>

\* a file URL that writes the ':' of the instance id unencoded (a variant C21
\* must tell apart)
constructFileURLPlainColon(fileName, instanceID, usr) ==
    join(<< split(usr.path, V1)[1] \o MEDIA_DL, PROJECTS, usr.projectId, FORMS,
            usr.xmlFormId, SUBMISSIONS, <<"u","u","i","d",":">> \o instanceID,
            ATTACHMENTS, fileName >>, SLASH)

\* constructFileURL(fileName, instanceID); dscc.path is a stored string
constructFileURL(fileName, instanceID, usr) ==
    LET mediaPath == split(usr.path, V1)[1] \o MEDIA_DL
    IN  join(<< mediaPath, PROJECTS, usr.projectId, FORMS, usr.xmlFormId,
                SUBMISSIONS, UUID_PREFIX \o instanceID, ATTACHMENTS, fileName >>, SLASH)

\* a conversion that joins the coordinate pair in the order it comes in (a
\* variant C19 must tell apart)
convertDataUnreversed(data, type, instanceId, usr) ==
    IF /\ type = "LATITUDE_LONGITUDE"
       /\ data.t = "object"
       /\ COORDINATES \in DOMAIN data.f
    THEN LET c == data.f[COORDINATES].a
         IN  [status |-> "ok",
              value |-> JStr(join(<<textOf(c[1]), textOf(c[2])>>, COMMA_SPACE))]
    ELSE [status |-> "ok", value |-> data]

\* a conversion that strips only the '-' of a datetime (a variant C20 must
\* tell apart)
convertDataKeepsT(data, type, instanceId, usr) ==
    IF type = "YEAR_MONTH_DAY_HOUR" /\ data.t = "string"
    THEN [status |-> "ok", value |-> JStr(split(strip(data.s, {"-"}), COLON)[1])]
    ELSE [status |-> "ok", value |-> data]

\* convertData(data, type, instanceId): the converted value, or that it throws
convertData(data, type, instanceId, usr) ==
    IF data = JNull THEN [status |-> "ok", value |-> JNull]
    ELSE CASE type = "URL" ->
                IF usr.path = NULL THEN [status |-> "error", value |-> JNull]
                ELSE [status |-> "ok",
                      value |-> JStr(constructFileURL(textOf(data), instanceId, usr))]
           [] type = "YEAR_MONTH_DAY_HOUR" ->
                IF data.t = "string" /\ "s" \in DOMAIN data
                THEN [status |-> "ok",
                      value |-> JStr(split(strip(data.s, {"-", "T"}), COLON)[1])]
                ELSE [status |-> "error", value |-> JNull]
           [] type = "YEAR_MONTH_DAY" ->
                IF data.t = "string" /\ "s" \in DOMAIN data
                THEN [status |-> "ok", value |-> JStr(strip(data.s, {"-"}))]
                ELSE [status |-> "error", value |-> JNull]
           [] type = "LATITUDE_LONGITUDE" ->
                IF /\ data.t = "object"
                   /\ COORDINATES \in DOMAIN data.f
                   /\ data.f[COORDINATES].t = "array"
                THEN LET c     == data.f[COORDINATES].a
                         two   == SubSeq(c, 1, IF Len(c) < 2 THEN Len(c) ELSE 2)
                         rev   == [i \in 1..Len(two) |-> two[Len(two) + 1 - i]]
                     IN  [status |-> "ok", value |-> JStr(joinTexts(rev, COMMA_SPACE))]
                ELSE [status |-> "error", value |-> JNull]
           [] type = "TEXT" ->
                IF data.t = "object" /\ TYPE_KEY \in DOMAIN data.f
                THEN [status |-> "ok", value |-> JText(data)]
                ELSE [status |-> "ok", value |-> data]
           [] OTHER -> [status |-> "ok", value |-> data]

----------------------------------------------------------------------------
(* RowProjector: responseToRows.                                           *)

\* submissions[key].split(":")[1]: the token, or that the read throws
instanceIdOf(submissions, key) ==
    IF submissions.t # "object" \/ key \notin DOMAIN submissions.f
    THEN [status |-> "error", token |-> UNDEFINED_TEXT]
    ELSE LET v == submissions.f[key]
         IN  IF v.t # "string" \/ "s" \notin DOMAIN v
             THEN [status |-> "error", token |-> UNDEFINED_TEXT]
             ELSE LET parts == split(v.s, COLON)
                  IN  [status |-> "ok",
                       token |-> IF Len(parts) >= 2 THEN parts[2] ELSE UNDEFINED_TEXT]

\* a key made of the whole enclosing chain, trailing groups included (a
\* variant C27 must tell apart)
instanceKeyOfWholeChain(table, map) ==
    LET tableKey == split(table, DOT)
        chain    == join(SubSeq(tableKey, 2, Len(tableKey) - 1), DASH)
    IN  IF Len(chain) > 0 THEN LINK_PREFIX \o DASH \o chain \o DASH \o LINK_SUFFIX
        ELSE LINK_PREFIX \o DASH \o LINK_SUFFIX

\* the key under which the response.map callback reads the parent's id on a
\* record of a repeat table
instanceKey(table, map) ==
    LET tableKey == split(table, DOT)
        spliced  == SubSeq(tableKey, 2, Len(tableKey) - 1)   \* splice(-1, 1); splice(0, 1)
        popped   == dropTrailingGroups(spliced, map)
        joined   == join(popped, DASH)
    IN  IF Len(joined) > 0 THEN LINK_PREFIX \o DASH \o joined \o DASH \o LINK_SUFFIX
        ELSE LINK_PREFIX \o DASH \o LINK_SUFFIX

RECURSIVE scanBack(_, _, _)
\* the backward scan over splitPath, i being 1-based; 0 when the scan runs off
\* the start of the array, after which splitPath[i] is undefined, the lookup
\* is undefined and the loop never ends
scanBack(splitPath, map, i) ==
    IF i < 1 THEN 0
    ELSE IF metaDataGet(map, splitPath[i]) \in {"structure", "undefined"}
         THEN scanBack(splitPath, map, i - 1)
         ELSE i

\* handleGeoAccuracyField on a non-empty splitPath
handleGeoAccuracyField(splitPath) ==
    LET n    == Len(splitPath)
        last == splitPath[n]
    IN  IF includes(last, ACCURACY_MARKER)
        THEN SubSeq(splitPath, 1, n - 1)
             \o << SubSeq(last, 1, Len(last) - 9), PROPERTIES, ACCURACY >>
        ELSE splitPath

RECURSIVE walk(_, _, _)
\* the for loop over splitPath from segment k on: the value reached, that a
\* segment was missing (push null), or that the in operator throws
walk(fieldData, splitPath, k) ==
    IF k > Len(splitPath) THEN [status |-> "ok", found |-> TRUE, value |-> fieldData]
    ELSE IF fieldData = JNull
         THEN [status |-> "ok", found |-> FALSE, value |-> JNull]
         ELSE LET has == hasProperty(fieldData, splitPath[k])
              IN  IF has = "throws"
                  THEN [status |-> "error", found |-> FALSE, value |-> JNull]
                  ELSE IF has = "yes"
                       THEN walk(getProperty(fieldData, splitPath[k]), splitPath, k + 1)
                       ELSE [status |-> "ok", found |-> FALSE, value |-> JNull]

\* the body of requestedFields.forEach for one field: the value pushed
cellOf(submissions, field, isSubmissions, instanceID, map, usr) ==
    LET whole == split(field.name, SLASH)
        i     == IF isSubmissions THEN 0 ELSE scanBack(whole, map, Len(whole))
    IN  IF ~isSubmissions /\ i = 0
        THEN [status |-> "diverges", value |-> JNull]
        ELSE LET trimmed == SubSeq(whole, i + 1, Len(whole))      \* slice(i + 1)
             IN  IF Len(trimmed) = 0
                 THEN [status |-> "error", value |-> JNull]       \* undefined.includes
                 ELSE LET w == walk(submissions, handleGeoAccuracyField(trimmed), 1)
                      IN  IF w.status # "ok" THEN [status |-> w.status, value |-> JNull]
                          ELSE IF ~w.found THEN [status |-> "ok", value |-> JNull]
                          ELSE convertData(w.value, field.type, instanceID, usr)

RECURSIVE rowFrom(_, _, _, _, _, _, _)
\* the fields from position k on, for one record
rowFrom(submissions, requestedFields, k, isSubmissions, instanceID, map, usr) ==
    IF k > Len(requestedFields) THEN [status |-> "ok", values |-> <<>>]
    ELSE LET c == cellOf(submissions, requestedFields[k], isSubmissions, instanceID, map, usr)
         IN  IF c.status # "ok" THEN [status |-> c.status, values |-> <<>>]
             ELSE LET rest == rowFrom(submissions, requestedFields, k + 1, isSubmissions,
                                      instanceID, map, usr)
                  IN  [status |-> rest.status, values |-> <<c.value>> \o rest.values]

\* the callback of response.map for one record
rowOf(submissions, requestedFields, map, usr) ==
    LET isSubmissions == usr.table = SUBMISSIONS
        key == IF isSubmissions THEN ROW_ID ELSE instanceKey(usr.table, map)
        tok == instanceIdOf(submissions, key)
    IN  IF usr.table = NULL \/ tok.status # "ok"
        THEN [status |-> "error", values |-> <<>>]
        ELSE rowFrom(submissions, requestedFields, 1, isSubmissions, tok.token, map, usr)

RECURSIVE rowsFrom(_, _, _, _, _)
rowsFrom(response, k, requestedFields, map, usr) ==
    IF k > Len(response) THEN [status |-> "ok", rows |-> <<>>]
    ELSE LET r == rowOf(response[k], requestedFields, map, usr)
         IN  IF r.status # "ok" THEN [status |-> r.status, rows |-> <<>>]
             ELSE LET rest == rowsFrom(response, k + 1, requestedFields, map, usr)
                  IN  [status |-> rest.status,
                       rows |-> IF rest.status = "ok" THEN <<r.values>> \o rest.rows ELSE <<>>]

\* responseToRows(requestedFields, response): the rows, or that it throws or
\* never returns
responseToRows(requestedFields, response, map, usr) ==
    rowsFrom(response, 1, requestedFields, map, usr)

----------------------------------------------------------------------------
(* The server: the forms it publishes and the rows it returns.             *)

q1 == <<"q","1">>
q2 == <<"q","2">>
q3 == <<"q","3">>
r1 == <<"r","1">>
r2 == <<"r","2">>
g1 == <<"g","1">>
g2 == <<"g","2">>
loc == <<"l","o","c">>
meta == <<"m","e","t","a">>
nA == <<"a">>
nB == <<"b">>
nAB == <<"a","-","b">>

\* a field descriptor: path is '/'-prefixed and its last segment is the name
D(segs, type) ==
    [path |-> SLASH \o join(segs, SLASH), name |-> segs[Len(segs)], type |-> type]

\* the form of the code's own comment (getFields) and of the spec's scenario
ExampleForm ==
    << D(<<q1>>, "string"), D(<<r1>>, "repeat"), D(<<r1, q2>>, "string"),
       D(<<r1, g1>>, "structure"), D(<<r1, g1, q3>>, "string") >>

FormCatalog ==
    << ExampleForm,
       \* no repeat; a geopoint followed by a sibling; the instanceID leaf
       << D(<<q1>>, "string"), D(<<loc>>, "geopoint"), D(<<q2>>, "int"),
          D(<<meta>>, "structure"), D(<<meta, INSTANCE_ID>>, "string") >>,
       \* a repeat inside a group
       << D(<<g1>>, "structure"), D(<<g1, q1>>, "dateTime"), D(<<g1, r1>>, "repeat"),
          D(<<g1, r1, loc>>, "geopoint"), D(<<g1, r1, q2>>, "date") >>,
       \* a repeat inside a group inside a repeat
       << D(<<r1>>, "repeat"), D(<<r1, q1>>, "binary"), D(<<r1, g1>>, "structure"),
          D(<<r1, g1, r2>>, "repeat"), D(<<r1, g1, r2, q2>>, "decimal") >>,
       \* the same repeat name under two groups
       << D(<<g1>>, "structure"), D(<<g1, r1>>, "repeat"), D(<<g1, r1, q1>>, "string"),
          D(<<g2>>, "structure"), D(<<g2, r1>>, "repeat"), D(<<g2, r1, q2>>, "boolean") >>,
       \* a question named like a method of the Map object
       \* and a repeat nested in a repeat of the same name
       << D(<<KEYS>>, "string"), D(<<r1>>, "repeat"), D(<<r1, KEYS>>, "string"),
          D(<<r1, q1>>, "int"), D(<<r1, r1>>, "repeat"), D(<<r1, r1, q2>>, "string") >>,
       \* questions named like the repeat and the group of the example form
       << D(<<r2>>, "repeat"), D(<<r2, r1>>, "string"), D(<<r2, g1>>, "geotrace"),
          D(<<g1>>, "string") >>,
       \* names with a dash; chains a-b and a, b
       << D(<<nAB>>, "repeat"), D(<<nAB, r1>>, "repeat"), D(<<nAB, r1, q1>>, "string"),
          D(<<nA>>, "repeat"), D(<<nA, nB>>, "repeat"), D(<<nA, nB, r1>>, "repeat"),
          D(<<nA, nB, r1, q2>>, "string"), D(<<nAB, q3>>, "string") >>,
       \* a group named instanceID
       << D(<<INSTANCE_ID>>, "structure"), D(<<INSTANCE_ID, q1>>, "string"),
          D(<<q2>>, "time") >> >>

NumForms == Len(FormCatalog)

DIGITS == <<"1","2","3","4","5","6","7","8","9">>
URL_PREFIX ==
    <<"h","t","t","p","s",":","/","/","h","/","v","1","/",
      "p","r","o","j","e","c","t","s","/","4","/","f","o","r","m","s","/","f">>
SVC == <<".","s","v","c">>

\* the OData URL of catalog form f: https://h/v1/projects/4/forms/f<f>.svc
FormUrl(f) == URL_PREFIX \o <<DIGITS[f]>> \o SVC

\* parseURL of every form's URL
FormUrlParts == [f \in 1..NumForms |-> parseURL(FormUrl(f))]

\* the catalog form a stored xmlFormId names
FormOfId(formId) == CHOOSE f \in 1..NumForms : FormUrlParts[f][3] = formId

\* the service document of a form: Submissions and one entity set per repeat,
\* named by the repeat's path with '.' for '/'
serverTables(json) ==
    LET repeats == SelectSeq(json, LAMBDA d : d.type = "repeat")
    IN  <<SUBMISSIONS>> \o
        [i \in 1..Len(repeats) |->
            SUBMISSIONS \o DOT \o join(split(substr(repeats[i].path, 1), SLASH), DOT)]

\* the service document of every form
ServiceDocument == [f \in 1..NumForms |-> serverTables(FormCatalog[f])]

\* the value getAvailableTablesFromURL stores in the 'tableNames' property
StoredTableNames == [f \in 1..NumForms |-> join(ServiceDocument[f], UNIQUE_SEPARATOR)]

getAvailableTablesFromURL(f) == StoredTableNames[f]

UUID_AB == <<"u","u","i","d",":","a","b">>
DATETIME_TEXT ==
    <<"2","0","2","1","-","0","3","-","1","7","T","1","2",":","3","4",":","5","6">>
DATE_TEXT == <<"2","0","1","7","-","0","3","-","1","7">>
SUBMITTER_NAME == <<"s","u","b","m","i","t","t","e","r","N","a","m","e">>
REVIEW_STATE == <<"r","e","v","i","e","w","S","t","a","t","e">>
SUBMISSION_DATE == <<"s","u","b","m","i","s","s","i","o","n","D","a","t","e">>
SYSTEM == <<"_","_","s","y","s","t","e","m">>

GeoPoint ==
    JObj( TYPE_KEY :> JStr(<<"P","o","i","n","t">>)
       @@ COORDINATES :> JArr(<< JNum(<<"-","1","2","2",".","3","3">>),
                                 JNum(<<"4","7",".","6","5">>),
                                 JNum(<<"0",".","0">>) >>)
       @@ PROPERTIES :> JObj(ACCURACY :> JNum(<<"5">>)) )

\* a row of the root table
RootRecord ==
    JObj( ROW_ID :> JStr(UUID_AB)
       @@ SYSTEM :> JObj( SUBMITTER_NAME :> JStr(<<"n">>)
                       @@ REVIEW_STATE :> JNull
                       @@ SUBMISSION_DATE :> JStr(DATETIME_TEXT) )
       @@ q1 :> JStr(<<"v">>)
       @@ q2 :> JNum(<<"7">>)
       @@ loc :> GeoPoint
       @@ KEYS :> JStr(<<"k">>)
       @@ g1 :> JObj(q1 :> JStr(DATETIME_TEXT))
       @@ r1 :> JArr(<< JObj(q2 :> JStr(<<"w">>)) >>) )

\* a row of the root table with unanswered questions
SparseRecord ==
    JObj( ROW_ID :> JStr(UUID_AB)
       @@ SYSTEM :> JObj(SUBMITTER_NAME :> JNull)
       @@ loc :> JNull
       @@ g1 :> JNull )

\* a row of a repeat table directly under the root
RepeatRecord ==
    JObj( ROW_ID :> JStr(<<"c","1">>)
       @@ (LINK_PREFIX \o DASH \o LINK_SUFFIX) :> JStr(UUID_AB)
       @@ q1 :> JStr(<<"f",".","j","p","g">>)
       @@ q2 :> JStr(DATE_TEXT)
       @@ loc :> GeoPoint
       @@ g1 :> JObj(q3 :> JNull) )

\* a row of a repeat table under the repeat r1
NestedRecord ==
    JObj( ROW_ID :> JStr(<<"c","2">>)
       @@ (LINK_PREFIX \o DASH \o r1 \o DASH \o LINK_SUFFIX) :> JStr(<<"c","1">>)
       @@ q2 :> JNum(<<"1",".","5">>) )

\* the record of the spec's missing-data scenario
EmptyRecord == JObj(<<>>)

----------------------------------------------------------------------------
(* The handlers.  Every remote fetch answers 200 here; the handlers run    *)
(* with stored credentials, as Data Studio calls them after isAuthValid.   *)

\* bound on the number of handler calls in one behaviour
MaxCalls == 3

NoCall ==
    [op |-> "none", form |-> 0, table |-> NULL, usedTable |-> NULL, tableNames |-> NULL,
     seed |-> 0, rowsValid |-> TRUE, status |-> "ok", built |-> FALSE, fields |-> <<>>,
     requestedIds |-> <<>>,
     requested |-> <<>>, response |-> <<>>, rows |-> <<>>]

\* the tables a request for form f can name: those of the form's service
\* document, which fill the dropdown, or none (configParams.table undefined)
RequestTables ==
    [f \in 1..NumForms |->
        {NULL} \cup {ServiceDocument[f][i] : i \in 1..Len(ServiceDocument[f])}]

\* Fields.forIds(ids): the fields with these ids, in the order of ids
forIds(fields, ids) ==
    LET known == SelectSeq(ids, LAMBDA x : \E k \in 1..Len(fields) : fields[k].id = x)
    IN  [i \in 1..Len(known) |->
            fields[CHOOSE k \in 1..Len(fields) : fields[k].id = known[i]]]

Init ==
    /\ id = 0
    /\ metaDataMap = <<>>
    /\ user = [path |-> FormUrlParts[1][1], table |-> NULL, tableNames |-> NULL,
               projectId |-> NULL, xmlFormId |-> NULL]
    /\ forms \in {<<f, 1>> : f \in 1..NumForms}
    /\ calls = 0
    /\ call = NoCall

\* a new execution of the script: the global initialisers run again
Load ==
    /\ call.op # "load"
    /\ id' = 0
    /\ metaDataMap' = <<>>
    /\ call' = [NoCall EXCEPT !.op = "load"]
    /\ UNCHANGED <<user, forms, calls>>

\* getConfig with configParams.URL: the table dropdown is filled by
\* getAvailableTablesFromURL, which stores the table names
GetConfig(f) ==
    /\ calls < MaxCalls
    /\ calls' = calls + 1
    /\ user' = [user EXCEPT !.tableNames = getAvailableTablesFromURL(f)]
    /\ call' = [NoCall EXCEPT !.op = "getConfig", !.form = f]
    /\ UNCHANGED <<id, metaDataMap, forms>>

\* getSchema(request); rowsValid is the outcome of the isNonNegativeInteger
\* checks of the row parameters
GetSchema(f, table, rowsValid) ==
    /\ calls < MaxCalls
    /\ calls' = calls + 1
    /\ \E user1 \in {IF table # NULL THEN [user EXCEPT !.table = table] ELSE user} :
         /\ user' = user1
         /\ IF rowsValid
            THEN \E r \in {getFields(FormCatalog[f], user1.table, user1.tableNames,
                                     metaDataMap, id)} :
                   /\ id' = r.id
                   /\ metaDataMap' = r.map
                   /\ call' = [NoCall EXCEPT !.op = "getSchema", !.form = f,
                                  !.table = table, !.usedTable = user1.table,
                                  !.tableNames = user1.tableNames, !.seed = id,
                                  !.rowsValid = rowsValid,
                                  !.status = r.status, !.built = (r.status = "ok"),
                                  !.fields = r.fields]
            ELSE /\ call' = [NoCall EXCEPT !.op = "getSchema", !.form = f,
                                !.table = table, !.usedTable = user1.table,
                                !.tableNames = user1.tableNames, !.seed = id,
                                  !.rowsValid = rowsValid,
                                !.status = "error"]
                 /\ UNCHANGED <<id, metaDataMap>>
    /\ UNCHANGED forms

\* getData(request) for a request whose server matches the stored credentials
GetData(f, table, ids, response) ==
    /\ calls < MaxCalls
    /\ calls' = calls + 1
    /\ \E path_infos \in {FormUrlParts[f]} :
       \E user1 \in {[user EXCEPT !.projectId = path_infos[2],
                                  !.xmlFormId = path_infos[3],
                                  !.table = IF table = NULL THEN SUBMISSIONS ELSE table,
                                  !.tableNames = getAvailableTablesFromURL(f)]} :
       \* getFields() without a request fetches the fields of the stored form
       \E r \in {getFields(FormCatalog[FormOfId(user1.xmlFormId)], user1.table,
                           user1.tableNames, metaDataMap, id)} :
       \E requestedFields \in {forIds(r.fields, ids)} :
       \E out \in {IF r.status = "ok"
                   THEN responseToRows(requestedFields, response, r.map, user1)
                   ELSE [status |-> "error", rows |-> <<>>]} :
         /\ user' = user1
         /\ id' = r.id
         /\ metaDataMap' = r.map
         /\ call' = [op |-> "getData", form |-> f, table |-> table,
                     usedTable |-> user1.table, tableNames |-> user1.tableNames,
                     seed |-> id, rowsValid |-> TRUE, status |-> out.status,
                     built |-> (r.status = "ok"),
                     fields |-> r.fields,
                     requestedIds |-> ids, requested |-> requestedFields,
                     response |-> response, rows |-> out.rows]
    /\ UNCHANGED forms

\* what a data request carries and gets back: the ids the client asks for
\* (those a schema call answered in a fresh execution: 0, 1, ...) and the
\* record array the server returns
DataRequests ==
    { [ids |-> <<0, 1, 2, 3, 4, 5, 6>>, response |-> <<RootRecord, SparseRecord>>],
      [ids |-> <<4, 1, 0>>,             response |-> <<RootRecord, EmptyRecord>>],
      [ids |-> <<0, 1, 2, 3, 4>>,       response |-> <<RepeatRecord>>],
      [ids |-> <<2, 1, 0>>,             response |-> <<NestedRecord, RepeatRecord>>] }

Next ==
    \/ Load
    \/ \E f \in {forms[1], forms[2]} : GetConfig(f)
    \/ \E f \in {forms[1], forms[2]}, rowsValid \in BOOLEAN :
         \E table \in RequestTables[f] : GetSchema(f, table, rowsValid)
    \/ \E f \in {forms[1], forms[2]}, d \in DataRequests :
         \E table \in RequestTables[f] : GetData(f, table, d.ids, d.response)

Spec == Init /\ [][Next]_vars

----------------------------------------------------------------------------
(* The functions of the connector applied on their own: one application    *)
(* per behaviour, its arguments and its result kept in call.               *)

\* the type strings a field descriptor can carry: the OData leaf types, the
\* two structural ones and strings the lookup does not know
ODataTypes ==
    {"int", "string", "boolean", "decimal", "date", "time", "dateTime", "geopoint",
     "geotrace", "geoshape", "binary", "barcode", "intent",
     "structure", "repeat", "select1", "INT", "geopoints", ""}

\* the index of the example form
UnitIndex == buildMetaData(metaDataClear(<<>>), ExampleForm)

\* a geo value whose precision sub-field is null, and one without it
GeoPointNullProperties ==
    JObj( TYPE_KEY :> JStr(<<"P","o","i","n","t">>)
       @@ COORDINATES :> JArr(<< JNum(<<"1">>), JNum(<<"2">>) >>)
       @@ PROPERTIES :> JNull )

GeoPointBare ==
    JObj( TYPE_KEY :> JStr(<<"P","o","i","n","t">>)
       @@ COORDINATES :> JArr(<< JNum(<<"1">>), JNum(<<"2">>) >>) )

\* rows of the root table: of a form with the group a-b (question q3) and the
\* question a_b; with a geo value that has no precision
DashedRecord ==
    JObj( ROW_ID :> JStr(UUID_AB)
       @@ nAB :> JObj(q3 :> JStr(<<"v">>))
       @@ replaceDash(nAB) :> JStr(<<"w">>)
       @@ loc :> GeoPointNullProperties )

BareGeoRecord ==
    JObj( ROW_ID :> JStr(UUID_AB)
       @@ q1 :> JNull
       @@ g1 :> JObj(<<>>)
       @@ loc :> GeoPointBare )

\* column lists as getFields builds them (ids 0, 1, ...) for the root table
\* and for the table Submissions.r1
UnitRootColumns ==
    << Field(0, ROW_ID, "dimension", "TEXT"),
       Field(1, q1, "dimension", "TEXT"),
       Field(2, g1 \o SLASH \o q3, "dimension", "TEXT"),
       Field(3, loc, "dimension", "LATITUDE_LONGITUDE"),
       Field(4, loc \o ACCURACY_MARKER, "metric", "NUMBER"),
       Field(5, q2, "metric", "NUMBER") >>

UnitDashedColumns ==
    << Field(0, ROW_ID, "dimension", "TEXT"),
       Field(1, replaceDash(nAB) \o SLASH \o q3, "dimension", "TEXT"),
       Field(2, q1, "dimension", "TEXT") >>

UnitRepeatColumns ==
    << Field(0, r1 \o SLASH \o LINK_PREFIX \o DASH \o LINK_SUFFIX, "dimension", "TEXT"),
       Field(1, r1 \o SLASH \o ROW_ID, "dimension", "TEXT"),
       Field(2, r1 \o SLASH \o q2, "dimension", "TEXT"),
       Field(3, r1 \o SLASH \o g1 \o SLASH \o q3, "dimension", "TEXT") >>

\* what responseToRows is applied to: the stored table, the requested
\* columns and the record array
UnitProjections ==
    LET root == {RootRecord, SparseRecord, DashedRecord, BareGeoRecord, EmptyRecord}
    IN  { [table |-> SUBMISSIONS, requested |-> c, response |-> <<x>>] :
              c \in {UnitRootColumns, UnitDashedColumns}, x \in root }
        \cup { [table |-> SUBMISSIONS, requested |-> UnitRootColumns, response |-> <<x, y>>] :
              x \in {RootRecord, SparseRecord}, y \in root }
        \cup { [table |-> SUBMISSIONS \o DOT \o r1, requested |-> UnitRepeatColumns,
               response |-> x] :
              x \in {<<RepeatRecord>>, <<RepeatRecord, RepeatRecord>>, <<EmptyRecord>>, <<>>} }

\* id strings of a record: as the server writes them, with a second ':',
\* with nothing after the ':', without a ':'
UnitIdTexts ==
    { UUID_AB,
      UUID_AB \o <<":","c","d">>,
      <<"u","u","i","d",":">>,
      <<":","x">>,
      <<"a",":","b",":","c",":","d">>,
      <<"a","b">> }

\* split column paths: geo accuracy columns, ordinary columns, and the
\* linkage column of a repeat table nested in a repeat named accuracy
\* (accuracy/r1/__Submissions-accuracy-id)
UnitSplitPaths ==
    { <<loc \o ACCURACY_MARKER>>,
      <<g1, loc \o ACCURACY_MARKER>>,
      <<ACCURACY_MARKER>>,
      <<loc>>,
      <<g1, q3>>,
      <<ACCURACY>>,
      <<loc \o ACCURACY_MARKER, q1>>,
      <<ACCURACY, r1, LINK_PREFIX \o ACCURACY_MARKER \o DASH \o LINK_SUFFIX>>,
      <<LINK_PREFIX \o DASH \o LINK_SUFFIX>> }

\* values handed to convertData, and the field types it switches on
UnitValues ==
    { JNull, JStr(DATETIME_TEXT), JStr(DATE_TEXT), JStr(<<"f",".","j","p","g">>),
      JNum(<<"7">>), GeoPoint, GeoPointBare, JObj(TYPE_KEY :> JStr(<<"P">>)),
      JObj(<<>>), JArr(<<JNum(<<"1">>), JNum(<<"2">>)>>) }

\* row-identity tokens handed to convertData: split(":")[1] of an id with
\* and without a ':'
UnitTokens == { <<"a","b">>, UNDEFINED_TEXT }

\* paths handed to parseURL: the URL of a form, and identifiers with fewer
\* segments than a form URL has
UnitPaths ==
    { FormUrl(1),
      <<"h","t","t","p","s",":","/","/","h","/","v","1">>,
      <<"h","/","x",".","s","v","c">>,
      <<"x">>,
      <<>> }

UnitFieldTypes ==
    {"URL", "YEAR_MONTH_DAY_HOUR", "YEAR_MONTH_DAY", "LATITUDE_LONGITUDE", "TEXT",
     "NUMBER", "BOOLEAN"}

UnitInit ==
    /\ id = 0
    /\ metaDataMap = <<>>
    /\ user = [path |-> FormUrlParts[1][1], table |-> SUBMISSIONS,
               tableNames |-> StoredTableNames[1],
               projectId |-> FormUrlParts[1][2], xmlFormId |-> FormUrlParts[1][3]]
    /\ forms = <<1, 1>>
    /\ calls = 0
    /\ call = NoCall

\* getGDSType(OdataType)
ApplyGetGDSType(OdataType) ==
    /\ call.op = "none"
    /\ call' = [op |-> "getGDSType", OdataType |-> OdataType,
                result |-> getGDSType(OdataType)]
    /\ UNCHANGED <<id, metaDataMap, user, forms, calls>>

\* responseToRows(requestedFields, response) with the index of the example form
ApplyResponseToRows(p) ==
    /\ call.op = "none"
    /\ \E out \in {responseToRows(p.requested, p.response, UnitIndex,
                                   [user EXCEPT !.table = p.table])} :
          call' = [op |-> "responseToRows", table |-> p.table, requested |-> p.requested,
                   response |-> p.response, status |-> out.status, rows |-> out.rows]
    /\ UNCHANGED <<id, metaDataMap, user, forms, calls>>

\* the first statements of the response.map callback: the row-identity token
\* read from the id field of the stored table
ApplyInstanceId(table, idText) ==
    /\ call.op = "none"
    /\ \E key \in {IF table = SUBMISSIONS THEN ROW_ID ELSE instanceKey(table, UnitIndex)} :
       \E tok \in {instanceIdOf(JObj(key :> JStr(idText)), key)} :
          call' = [op |-> "instanceID", table |-> table, key |-> key, idText |-> idText,
                   status |-> tok.status, token |-> tok.token]
    /\ UNCHANGED <<id, metaDataMap, user, forms, calls>>

\* handleGeoAccuracyField(splitPath): the array it leaves behind
ApplyHandleGeoAccuracyField(splitPath) ==
    /\ call.op = "none"
    /\ call' = [op |-> "handleGeoAccuracyField", splitPath |-> splitPath,
                result |-> handleGeoAccuracyField(splitPath)]
    /\ UNCHANGED <<id, metaDataMap, user, forms, calls>>

\* the first loop of getFields on the Map of a newly loaded script
ApplyBuildMetaData(json) ==
    /\ call.op = "none"
    /\ call' = [op |-> "buildMetaData", json |-> json,
                index |-> buildMetaData(metaDataClear(metaDataMap), json)]
    /\ UNCHANGED <<id, metaDataMap, user, forms, calls>>

\* convertData(data, type, instanceId)
ApplyConvertData(data, type, instanceId) ==
    /\ call.op = "none"
    /\ \E out \in {convertData(data, type, instanceId, user)} :
          call' = [op |-> "convertData", data |-> data, type |-> type,
                   instanceId |-> instanceId,
                   status |-> out.status, value |-> out.value]
    /\ UNCHANGED <<id, metaDataMap, user, forms, calls>>

\* parseURL(path): it has no throw and no error return, and split, slice,
\* join and substr accept every string
ApplyParseURL(path) ==
    /\ call.op = "none"
    /\ call' = [op |-> "parseURL", path |-> path, status |-> "ok",
                result |-> parseURL(path)]
    /\ UNCHANGED <<id, metaDataMap, user, forms, calls>>

UnitNext ==
    \/ \E OdataType \in ODataTypes : ApplyGetGDSType(OdataType)
    \/ \E p \in UnitProjections : ApplyResponseToRows(p)
    \/ \E table \in {SUBMISSIONS, SUBMISSIONS \o DOT \o r1}, idText \in UnitIdTexts :
         ApplyInstanceId(table, idText)
    \/ \E splitPath \in UnitSplitPaths : ApplyHandleGeoAccuracyField(splitPath)
    \/ \E f \in 1..NumForms : ApplyBuildMetaData(FormCatalog[f])
    \/ \E data \in UnitValues, type \in UnitFieldTypes, instanceId \in UnitTokens :
         ApplyConvertData(data, type, instanceId)
    \/ \E path \in UnitPaths : ApplyParseURL(path)

UnitSpec == UnitInit /\ [][UnitNext]_vars

----------------------------------------------------------------------------
(* What the claims speak about, read off the last call.                    *)

\* the descriptor array the last schema build read
BuiltJson == FormCatalog[call.form]

\* the descriptors that are leaves: not a structure, not a repeat, not instanceID
IsLeaf(d) == d.type \notin {"structure", "repeat"} /\ d.name # INSTANCE_ID

\* the kind MetadataIndex records for a name: "absent" for a name no build
\* recorded
IndexEntry(n) ==
    IF n \notin DOMAIN metaDataMap THEN "absent"
    ELSE IF metaDataMap[n] = "repeat" THEN "repeat" ELSE "group"

\* the requested table identity as a chain: empty for the root table
RequestedIdentity ==
    IF call.usedTable = SUBMISSIONS THEN <<>> ELSE substr(call.usedTable, 12)

NumSynthetic == IF call.usedTable = SUBMISSIONS THEN 4 ELSE 2

\* column k is the accuracy companion of the geo column before it
IsAccuracyCompanion(fields, k) ==
    /\ k > 1
    /\ fields[k - 1].type = "LATITUDE_LONGITUDE"
    /\ fields[k].name = fields[k - 1].name \o ACCURACY_MARKER

\* the names of the leaf columns of the built schema, in order
LeafColumnNames ==
    LET idx == SelectSeq([k \in 1..Len(call.fields) |-> k],
                         LAMBDA k : k > NumSynthetic /\ ~IsAccuracyCompanion(call.fields, k))
    IN  [i \in 1..Len(idx) |-> call.fields[idx[i]].name]

\* two column lists agree in every column's id and path
SameColumns(a, b) ==
    /\ Len(a) = Len(b)
    /\ \A k \in 1..Len(a) : a[k].id = b[k].id /\ a[k].name = b[k].name

----------------------------------------------------------------------------
(* Claims.                                                                 *)

\* C1: responseToRows returns exactly one row per input record and every row
\* holds exactly one value per requested column, for every column list and
\* every record array, also when columns are missing from a record.
C1_OneRowPerRecord ==
    (call.op = "getData" /\ call.built) =>
        /\ call.status = "ok"
        /\ Len(call.rows) = Len(call.response)
        /\ \A i \in 1..Len(call.rows) : Len(call.rows[i]) = Len(call.requested)

\* C2: for the same table, descriptors and known table list, a schema request
\* followed by a data request builds the same column list: every column has
\* the same id and the same path in both calls.
C2_SameColumnsInSchemaAndData ==
    [][ ( /\ call.op = "getSchema" /\ call.built
          /\ call'.op = "getData" /\ call'.built
          /\ call'.form = call.form
          /\ call'.usedTable = call.usedTable
          /\ call'.tableNames = call.tableNames )
        => SameColumns(call.fields, call'.fields) ]_vars

\* C3: the leaf columns of a built schema are exactly the leaf descriptors
\* whose owning table (classifyFieldTable) equals the requested table identity,
\* the root table being the empty chain, in descriptor order.
C3_LeafColumnsAreTheOwnedLeaves ==
    call.built =>
        LET owned == SelectSeq(BuiltJson,
                        LAMBDA d : IsLeaf(d) /\
                                   schemaTableName(d.path, metaDataMap) = RequestedIdentity)
        IN  LeafColumnNames = [i \in 1..Len(owned) |-> replaceDash(substr(owned[i].path, 1))]

\* the owner the claim gives a path: the segments up to the last one that the
\* index maps to repeat, joined with '.'
ClaimedOwner(path) ==
    LET all  == split(path, SLASH)
        segs == SubSeq(all, 2, Len(all))
        R    == {k \in 1..Len(segs) : IndexEntry(segs[k]) = "repeat"}
        last == IF R = {} THEN 0 ELSE CHOOSE k \in R : \A j \in R : j <= k
    IN  join(SubSeq(segs, 1, last), DOT)

\* C4: classifyFieldTable removes from the end of a leaf's path every segment
\* that is absent from MetadataIndex or mapped to group, stops at the last
\* repeat-kind segment, and joins what remains with '.'.
C4_OwnerIsChainToLastRepeat ==
    call.built =>
        \A i \in 1..Len(BuiltJson) :
            IsLeaf(BuiltJson[i]) =>
                schemaTableName(BuiltJson[i].path, metaDataMap)
                    = ClaimedOwner(BuiltJson[i].path)

\* the owning chain of leaf descriptor i of the built form, as a list of names
OwnerChain(i) == split(schemaTableName(BuiltJson[i].path, metaDataMap), DOT)

\* leaf descriptor i of the built form is owned by a non-root table
OwnedByRepeat(i) ==
    /\ IsLeaf(BuiltJson[i])
    /\ schemaTableName(BuiltJson[i].path, metaDataMap) # <<>>

ClaimedLinkage(table) ==
    LET parts == split(table, DOT)
        mid   == SubSeq(parts, 2, Len(parts) - 1)
        K     == {k \in 1..Len(mid) : IndexEntry(mid[k]) # "group"}
        last  == IF K = {} THEN 0 ELSE CHOOSE k \in K : \A j \in K : j <= k
        S     == join(SubSeq(mid, 1, last), DASH)
    IN  IF S = <<>> THEN LINK_PREFIX \o DASH \o LINK_SUFFIX
        ELSE LINK_PREFIX \o DASH \o S \o DASH \o LINK_SUFFIX

\* the last path segment of a column's name
LastSegment(name) == LET segs == split(name, SLASH) IN segs[Len(segs)]

\* C6: the linkage column of a repeat table is named by removing the root
\* marker and the table's own last name from the dotted chain, dropping
\* trailing group-kind segments and joining the rest with '-': nothing left
\* gives '__Submissions-id', S left gives '__Submissions-S-id'.
C6_LinkageName ==
    (call.built /\ call.usedTable # SUBMISSIONS) =>
        /\ LastSegment(call.fields[1].name) = ClaimedLinkage(call.usedTable)
        /\ call.usedTable = join(<<SUBMISSIONS, r1, g1, r2>>, DOT) =>
              LastSegment(call.fields[1].name)
                  = LINK_PREFIX \o DASH \o r1 \o DASH \o LINK_SUFFIX

\* a schema built for the table Submissions.r1.g1.r2, whose enclosing chain
\* ends in a group
C6_LinkageUnderGroup ==
    /\ call.built
    /\ call.form = 4
    /\ call.usedTable = join(<<SUBMISSIONS, r1, g1, r2>>, DOT)
    /\ IndexEntry(g1) = "group"

----------------------------------------------------------------------------

\* the repeat tables of the known table list, as lists of names
KnownRepeatTables ==
    LET all == split(call.tableNames, UNIQUE_SEPARATOR)
    IN  {split(all[i], DOT) : i \in {j \in 1..Len(all) : all[j] # SUBMISSIONS}}

\* the chain that encloses a repeat table: without the root marker and
\* without the table's own name
Enclosing(t) == SubSeq(t, 2, Len(t) - 1)

\* two distinct repeat tables that end in the same name under different
\* enclosing chains
SameNameElsewhere(t1, t2) ==
    /\ t1 # t2
    /\ t1[Len(t1)] = t2[Len(t2)]
    /\ Enclosing(t1) # Enclosing(t2)

\* a chain without its trailing segments recorded as group
WithoutTrailingGroups(chain) ==
    LET K    == {k \in 1..Len(chain) : IndexEntry(chain[k]) # "group"}
        last == IF K = {} THEN 0 ELSE CHOOSE k \in K : \A j \in K : j <= k
    IN  SubSeq(chain, 1, last)

HasDash(chain) ==
    \E k \in 1..Len(chain) : \E c \in 1..Len(chain[k]) : chain[k][c] = "-"

\* C7 as the spec states it: two distinct repeat tables that end in the same
\* repeat name but have different enclosing chains get different linkage
\* column names.
C7_LinkageNamesNeverCollide ==
    call.built =>
        \A t1, t2 \in KnownRepeatTables :
            SameNameElsewhere(t1, t2) =>
                linkageKey(join(t1, DOT), metaDataMap) # linkageKey(join(t2, DOT), metaDataMap)

\* C7, amended: the linkage names differ when the enclosing chains still
\* differ once their trailing group-kind segments are dropped and no name in
\* them contains '-'.
C7_LinkageNamesOfDistinctRepeatChains ==
    call.built =>
        \A t1, t2 \in KnownRepeatTables :
            ( /\ SameNameElsewhere(t1, t2)
              /\ WithoutTrailingGroups(Enclosing(t1)) # WithoutTrailingGroups(Enclosing(t2))
              /\ ~HasDash(Enclosing(t1)) /\ ~HasDash(Enclosing(t2)) )
            => linkageKey(join(t1, DOT), metaDataMap) # linkageKey(join(t2, DOT), metaDataMap)

\* a built form whose table list has the same repeat name at two depths
C7_SameRepeatAtTwoDepths ==
    /\ call.built
    /\ \E t1, t2 \in KnownRepeatTables :
          /\ SameNameElsewhere(t1, t2)
          /\ WithoutTrailingGroups(Enclosing(t1)) # WithoutTrailingGroups(Enclosing(t2))
          /\ ~HasDash(Enclosing(t1)) /\ ~HasDash(Enclosing(t2))

\* the path a repeat table's synthetic columns are put under
TablePath == LET parts == split(call.usedTable, DOT)
             IN  join(SubSeq(parts, 2, Len(parts)), SLASH)

\* the names of the synthetic columns
SyntheticNames ==
    {SYSTEM_SUBMITTER, SYSTEM_REVIEW, ROW_ID, SYSTEM_DATE,
     TablePath \o SLASH \o ROW_ID, TablePath \o SLASH \o ClaimedLinkage(call.usedTable)}

\* C8: every schema starts with its synthetic dimension columns, before any
\* leaf column: for the root table exactly four, submitter name, review
\* state, row id, submission timestamp, typed text, text, text, datetime; for
\* a repeat table exactly two, the linkage id and then the row id, both text.
C8_SyntheticColumnsFirst ==
    call.built =>
        LET F == call.fields
        IN  /\ Len(F) >= NumSynthetic
            /\ \A k \in 1..NumSynthetic : F[k].concept = "dimension"
            /\ IF call.usedTable = SUBMISSIONS
               THEN /\ <<F[1].name, F[2].name, F[3].name, F[4].name>>
                          = <<SYSTEM_SUBMITTER, SYSTEM_REVIEW, ROW_ID, SYSTEM_DATE>>
                    /\ <<F[1].type, F[2].type, F[3].type, F[4].type>>
                          = <<"TEXT", "TEXT", "TEXT", "YEAR_MONTH_DAY_HOUR">>
               ELSE /\ F[1].name = TablePath \o SLASH \o ClaimedLinkage(call.usedTable)
                    /\ F[2].name = TablePath \o SLASH \o ROW_ID
                    /\ <<F[1].type, F[2].type>> = <<"TEXT", "TEXT">>
            /\ \A k \in (NumSynthetic + 1)..Len(F) : F[k].name \notin SyntheticNames

\* a root schema and a repeat schema, each with leaf columns after the
\* synthetic ones
C8_RootSchemaWithLeaves ==
    call.built /\ call.usedTable = SUBMISSIONS /\ Len(call.fields) > 4

C8_RepeatSchemaWithLeaves ==
    call.built /\ call.usedTable # SUBMISSIONS /\ Len(call.fields) > 2

\* C9: within one schema build the k-th emitted column (k = 0, 1, 2, ...,
\* synthetic, leaf and accuracy columns alike) gets the id seed + k, seed being
\* the counter's value when the build starts, and the counter ends at seed
\* plus the number of columns.
C9_IdsCountUpFromSeed ==
    call.built =>
        /\ \A k \in 1..Len(call.fields) : call.fields[k].id = call.seed + k - 1
        /\ id = call.seed + Len(call.fields)

\* a build that starts from a counter above 0 and emits a geo column, its
\* accuracy column and a leaf column after them
C9_LaterBuildWithGeoColumn ==
    /\ call.built
    /\ call.seed > 0
    /\ \E k \in 1..Len(call.fields) :
          /\ call.fields[k].type = "LATITUDE_LONGITUDE"
          /\ k + 2 <= Len(call.fields)

----------------------------------------------------------------------------

\* the fixed table of the spec, in the names of the platform's field types
TypeTable ==
    [t \in {"int", "decimal"} |-> <<"metric", "NUMBER">>]
    @@ [t \in {"boolean"} |-> <<"metric", "BOOLEAN">>]
    @@ [t \in {"string", "time", "geotrace", "geoshape", "barcode", "intent"}
            |-> <<"dimension", "TEXT">>]
    @@ [t \in {"date"} |-> <<"dimension", "YEAR_MONTH_DAY">>]
    @@ [t \in {"dateTime"} |-> <<"dimension", "YEAR_MONTH_DAY_HOUR">>]
    @@ [t \in {"geopoint"} |-> <<"dimension", "LATITUDE_LONGITUDE">>]
    @@ [t \in {"binary"} |-> <<"dimension", "URL">>]

\* C11: the type lookup maps every OData leaf type to the (concept role,
\* semantic type) pair of the fixed table, and every other type string to
\* (dimension, text).
C11_TypeLookupIsTheFixedTable ==
    call.op = "getGDSType" =>
        <<call.result.conceptType, call.result.dataType>>
            = IF call.OdataType \in DOMAIN TypeTable THEN TypeTable[call.OdataType]
              ELSE <<"dimension", "TEXT">>

\* the lookup applied to a metric type
C11_LookupOfDecimal ==
    call.op = "getGDSType" /\ call.OdataType = "decimal" /\ call.result.conceptType = "metric"

----------------------------------------------------------------------------

\* s ends with the accuracy marker
EndsWithMarker(s) ==
    /\ Len(s) >= Len(ACCURACY_MARKER)
    /\ SubSeq(s, Len(s) - Len(ACCURACY_MARKER) + 1, Len(s)) = ACCURACY_MARKER

\* the path the spec navigates for a root-table column: its segments, the
\* accuracy marker rewritten
RootPath(name) ==
    LET segs == split(name, SLASH)
        last == segs[Len(segs)]
    IN  IF EndsWithMarker(last)
        THEN SubSeq(segs, 1, Len(segs) - 1)
             \o <<SubSeq(last, 1, Len(last) - Len(ACCURACY_MARKER)), PROPERTIES, ACCURACY>>
        ELSE segs

RECURSIVE Misses(_, _, _)
\* walking path from segment k on, some step finds the current node null or
\* the next segment not among its keys
Misses(node, path, k) ==
    IF k > Len(path) THEN FALSE
    ELSE IF node.t # "object" THEN TRUE
    ELSE IF path[k] \notin DOMAIN node.f THEN TRUE
    ELSE Misses(node.f[path[k]], path, k + 1)

CarriesRowId(record) ==
    /\ record.t = "object"
    /\ ROW_ID \in DOMAIN record.f
    /\ record.f[ROW_ID].t = "string"

\* C12: for every record that carries its row-identity field and for every
\* column, a path step that finds the next segment missing or the current
\* node null makes the column's value null, raises no error and leaves the
\* row's other columns in place.
C12_MissingStepGivesNull ==
    ( /\ call.op = "responseToRows"
      /\ call.table = SUBMISSIONS
      /\ \A i \in 1..Len(call.response) : CarriesRowId(call.response[i]) )
    => /\ call.status = "ok"
       /\ Len(call.rows) = Len(call.response)
       /\ \A i \in 1..Len(call.rows) :
             /\ Len(call.rows[i]) = Len(call.requested)
             /\ \A j \in 1..Len(call.requested) :
                   Misses(call.response[i], RootPath(call.requested[j].name), 1)
                       => call.rows[i][j] = JNull

\* C13: projecting the empty record {} against a non-empty column list, for
\* the root table or a repeat table, yields one row in which every value is
\* null, and raises no error.
C13_EmptyRecordGivesNullRow ==
    ( /\ call.op = "responseToRows"
      /\ call.response = <<EmptyRecord>>
      /\ Len(call.requested) > 0 )
    => /\ call.status = "ok"
       /\ call.rows = << [j \in 1..Len(call.requested) |-> JNull] >>

----------------------------------------------------------------------------

\* the whole text after the first ':' of s
AfterFirstColon(s) ==
    LET C == {i \in 1..Len(s) : s[i] = ":"}
        first == CHOOSE i \in C : \A j \in C : i <= j
    IN  SubSeq(s, first + 1, Len(s))

\* C14: the row-identity token of a record is the whole substring of its id
\* field that follows the first ':' of that string, also for an id string
\* with more than one ':'.
C14_TokenIsAllAfterFirstColon ==
    (call.op = "instanceID" /\ \E i \in 1..Len(call.idText) : call.idText[i] = ":")
    => /\ call.status = "ok"
       /\ call.token = AfterFirstColon(call.idText)

----------------------------------------------------------------------------

\* the part of a column's path that lies inside the requested table: the
\* segments after the table's own repeat segment
InsideRequestedTable(name) ==
    LET whole == split(name, SLASH)
        chain == split(RequestedIdentity, DOT)
    IN  SubSeq(whole, Len(chain) + 1, Len(whole))

\* C15: for a repeat-table request, the path navigated for a column is exactly
\* the part of the column's path inside the requested table: the segments
\* after the table's own (last) repeat segment, groups and field name kept in
\* order.
C15_NavigatedPathIsInsideTable ==
    (call.op = "getData" /\ call.built /\ call.usedTable # SUBMISSIONS) =>
        \A k \in 1..Len(call.requested) :
            LET whole == split(call.requested[k].name, SLASH)
                i     == scanBack(whole, metaDataMap, Len(whole))
            IN  /\ i # 0
                /\ SubSeq(whole, i + 1, Len(whole))
                      = InsideRequestedTable(call.requested[k].name)

----------------------------------------------------------------------------

\* C16: the accuracy rewrite is applied exactly when the final path segment
\* ends with the marker '-accuracy' (the marker stripped, 'properties' and
\* 'accuracy' appended); any other path is navigated unchanged.
C16_RewriteOnlyForMarkerSuffix ==
    call.op = "handleGeoAccuracyField" =>
        LET n    == Len(call.splitPath)
            last == call.splitPath[n]
        IN  call.result
              = IF EndsWithMarker(last)
                THEN SubSeq(call.splitPath, 1, n - 1)
                     \o << SubSeq(last, 1, Len(last) - Len(ACCURACY_MARKER)),
                           PROPERTIES, ACCURACY >>
                ELSE call.splitPath

----------------------------------------------------------------------------

\* C17: after MetadataIndex.build the index has no entry that comes from a
\* leaf descriptor and no entry for the name instanceID, whatever type the
\* descriptor named instanceID has.
C17_NoLeafAndNoInstanceIdEntry ==
    call.op = "buildMetaData" =>
        /\ INSTANCE_ID \notin DOMAIN call.index
        /\ \A n \in DOMAIN call.index :
              \E i \in 1..Len(call.json) :
                  /\ call.json[i].name = n
                  /\ call.json[i].type \in {"structure", "repeat"}

----------------------------------------------------------------------------

\* the names of the structure and repeat descriptors of an array
StructuralNames(json) ==
    {json[i].name : i \in {j \in 1..Len(json) : json[j].type \in {"structure", "repeat"}}}

\* C18: after any sequence of schema builds in one process MetadataIndex
\* holds exactly the structure and repeat names of the most recent descriptor
\* array: no entry of an earlier build (for another form) is left.
C18_IndexHoldsOnlyTheLastForm ==
    call.built => DOMAIN metaDataMap = StructuralNames(BuiltJson)

----------------------------------------------------------------------------

\* a geo value: an object whose coordinates are an array of at least two
\* numbers
IsGeoValue(v) ==
    /\ v.t = "object"
    /\ COORDINATES \in DOMAIN v.f
    /\ v.f[COORDINATES].t = "array"
    /\ Len(v.f[COORDINATES].a) >= 2

\* C19: for a non-null geo value, convert with semantic type geo-coordinate
\* returns the first two coordinates in reversed order joined by ', ', any
\* third component ignored: {coordinates:[-122.33, 47.65, 0.0]} gives
\* "47.65, -122.33".
C19_GeoIsLatitudeThenLongitude ==
    (call.op = "convertData" /\ call.type = "LATITUDE_LONGITUDE" /\ IsGeoValue(call.data))
    => /\ call.status = "ok"
       /\ LET c == call.data.f[COORDINATES].a
          IN  call.value = JStr(c[2].s \o <<",", " ">> \o c[1].s)
       /\ call.data = GeoPoint =>
             call.value = JStr(<<"4","7",".","6","5",","," ","-","1","2","2",".","3","3">>)

\* the geo value of the spec's scenario, with its third component, converted
C19_ScenarioConverted ==
    /\ call.op = "convertData"
    /\ call.type = "LATITUDE_LONGITUDE"
    /\ call.data = GeoPoint
    /\ Len(call.data.f[COORDINATES].a) = 3
    /\ call.status = "ok"

\* the datetime value converted
DateTimeConverted ==
    /\ call.op = "convertData"
    /\ call.type = "YEAR_MONTH_DAY_HOUR"
    /\ call.data = JStr(DATETIME_TEXT)

\* C20 as the spec states it: converting the datetime value
\* "2021-03-17T12:34:56" yields "20210317T12".
C20_DateTimeKeepsT ==
    DateTimeConverted =>
        call.value = JStr(<<"2","0","2","1","0","3","1","7","T","1","2">>)

\* C20, amended: converting the datetime value "2021-03-17T12:34:56" yields
\* "2021031712": the 'T' is removed with the '-' and the text is cut at the
\* first ':'.
C20_DateTimeIsDigitsToTheHour ==
    DateTimeConverted =>
        /\ call.status = "ok"
        /\ call.value = JStr(<<"2","0","2","1","0","3","1","7","1","2">>)

\* the datetime of the scenario went through the conversion
C20_ScenarioConverted ==
    DateTimeConverted /\ call.status = "ok" /\ call.value.t = "string"

----------------------------------------------------------------------------
(* C21: the media URL of an attachment.                                    *)

\* the part of a stored path before its first "/v1" (all of it without one)
BeforeV1(path) ==
    LET hits == {i \in 1..Len(path) : MatchAt(path, V1, i)}
    IN  IF hits = {} THEN path
        ELSE SubSeq(path, 1, (CHOOSE i \in hits : \A j \in hits : i <= j) - 1)

\* <base>/#/dl/projects/<projectId>/forms/<formId>/Submissions/<uuid><token>/attachments/<value>
ClaimedFileURL(uuid, token, value) ==
    BeforeV1(user.path)
    \o <<"/","#","/","d","l","/","p","r","o","j","e","c","t","s","/">> \o user.projectId
    \o <<"/","f","o","r","m","s","/">> \o user.xmlFormId
    \o <<"/","S","u","b","m","i","s","s","i","o","n","s","/">> \o uuid \o token
    \o <<"/","a","t","t","a","c","h","m","e","n","t","s","/">> \o value

\* the last call converted a non-null value of type URL
ConvertedURL ==
    /\ call.op = "convertData"
    /\ call.type = "URL"
    /\ call.data # JNull

----------------------------------------------------------------------------
(* C22: conversion of values that do not fit their type.                   *)

\* C22: convert raises no error for any value shape and semantic type: null
\* comes back as null for every type, and a value that does not fit its
\* type's conversion comes back as a string or unchanged.
C22_ConvertRaisesNoError ==
    call.op = "convertData" =>
        /\ call.status = "ok"
        /\ call.data = JNull => call.value = JNull
        /\ call.value.t = "string" \/ call.value = call.data

----------------------------------------------------------------------------
(* C23: the schema of a repeat table that owns no leaf.                    *)

\* a schema build ran for a table other than the root table, with the table
\* names stored, and getFields attributes no leaf of the form to that table
BuildForTableWithoutLeaves ==
    /\ call.op \in {"getSchema", "getData"}
    /\ call.rowsValid
    /\ call.usedTable \notin {NULL, SUBMISSIONS}
    /\ call.tableNames # NULL
    /\ \A i \in 1..Len(BuiltJson) :
          IsLeaf(BuiltJson[i]) =>
              schemaTableName(BuiltJson[i].path, metaDataMap) # RequestedIdentity

\* C23 as stated: when the requested table identity is not the root table and
\* no leaf descriptor belongs to it, the build returns an empty schema (no
\* columns) and raises no error.
C23_EmptySchema ==
    BuildForTableWithoutLeaves => (call.built /\ call.fields = <<>>)

\* C23 as the code has it: when the requested table identity is not the root
\* table and no leaf descriptor belongs to it, the build raises no error and
\* returns the schema of the two synthetic columns alone, the linkage id and
\* the row id of that table.
C23_OnlySyntheticColumns ==
    BuildForTableWithoutLeaves =>
        /\ call.built
        /\ Len(call.fields) = 2
        /\ call.fields[1].name = TablePath \o SLASH \o ClaimedLinkage(call.usedTable)
        /\ call.fields[2].name = TablePath \o SLASH \o ROW_ID

\* a schema was built for the table Submissions.a of the form whose repeat a
\* holds nothing but the repeat b
C23_RepeatOfRepeatsBuilt ==
    /\ BuildForTableWithoutLeaves
    /\ call.op = "getSchema"
    /\ call.form = 8
    /\ call.table = SUBMISSIONS \o DOT \o nA
    /\ call.built

----------------------------------------------------------------------------
(* C24: a resource identifier with too few path segments.                  *)

\* the identifier has fewer than four '/'-separated segments
TooFewSegments(path) == Len(split(path, SLASH)) < 4

\* C24: given a resource identifier that does not have at least 4 trailing
\* path segments, PathParser reports a MalformedResourceIdentifier error to
\* its caller instead of returning a (baseURL, projectId, formId) triple.
C24_ShortIdentifierIsReported ==
    (call.op = "parseURL" /\ TooFewSegments(call.path)) =>
        /\ call.status = "error"
        /\ Len(call.result) # 3

----------------------------------------------------------------------------
(* C27: the linkage column of the schema and the key read on a record.     *)

\* a data request built the schema of a repeat table
RepeatTableProjected ==
    /\ call.op = "getData"
    /\ call.built
    /\ call.usedTable # SUBMISSIONS

\* C27: for every repeat-table identity and every MetadataIndex, the linkage
\* column name that SchemaBuilder emits (the last path segment of the first
\* synthetic column) is equal to the key that RowProjector reads on each
\* record to obtain the row-identity token; so a projection that succeeds
\* found that name on every record.
C27_LinkageNameIsTheKeyRead ==
    RepeatTableProjected =>
        /\ LastSegment(call.fields[1].name) = instanceKey(call.usedTable, metaDataMap)
        /\ call.status = "ok" =>
              \A k \in 1..Len(call.response) :
                  LastSegment(call.fields[1].name) \in DOMAIN call.response[k].f

\* the rows of a repeat table were projected, the parent's id being read on
\* every record under the name of the schema's first column
C27_RepeatRowsProjected ==
    /\ RepeatTableProjected
    /\ call.status = "ok"
    /\ Len(call.rows) > 0
    /\ \A k \in 1..Len(call.response) :
          instanceKey(call.usedTable, metaDataMap) \in DOMAIN call.response[k].f

----------------------------------------------------------------------------
(* C28: the backward scan of a column path.                                *)

\* C28: for a repeat-table request, row projection terminates for every
\* column path and every finite record array: the backward scan that trims a
\* column path stops at the start of the path also when no segment of the
\* path is recorded as repeat in MetadataIndex.
C28_ProjectionTerminates ==
    (call.op = "getData" /\ call.built /\ call.usedTable # SUBMISSIONS) =>
        call.status # "diverges"

----------------------------------------------------------------------------
(* C29: the table a request resolves to.                                   *)

\* C29: getSchema and getData resolve the same table identity for the same
\* request: when request.configParams.table is absent both treat the request
\* as the root table Submissions, whatever table an earlier request left in
\* the persisted 'table' property; when it is present both use it.
C29_TableOfTheRequest ==
    call.op \in {"getSchema", "getData"} =>
        call.usedTable = (IF call.table = NULL THEN SUBMISSIONS ELSE call.table)

----------------------------------------------------------------------------
(* The stored session and the requests to the server.  The user properties *)
(* hold dscc.username, dscc.password, dscc.path, dscc.fullPath, dscc.token *)
(* and dscc.timestamp; a property that is not stored reads as null.  What  *)
(* the server answers and whether 24 hours have passed since the stored    *)
(* timestamp are inputs of each call.                                      *)

MaxRemoteCalls == 2

\* the response code the code tests for, and the codes a response carries
OK == 200
ResponseCodes == {200, 401}

\* after deleteAllProperties
NoSession ==
    [username |-> NULL, password |-> NULL, path |-> NULL, fullPath |-> NULL,
     token |-> NULL, timestamp |-> NULL]

\* currTime.toString()
NOW == <<"n","o","w">>

\* the tokens the server issues: a new one differs from the one stored
TOKEN_A == <<"A">>
TOKEN_B == <<"B">>
issuedToken(stored) == IF stored = TOKEN_A THEN TOKEN_B ELSE TOKEN_A

\* one UrlFetchApp.fetch: the URL, the token of its Authorization header
\* (null for the POST of the credentials) and the response code
Fetch(url, token, status) == [url |-> url, token |-> token, status |-> status]

\* the URLs fetched: path/sessions, the fields of the form, the service
\* document (the form's URL), the count of a table, and the rows of a table
\* from skip on
Url(path, skip, top) == [path |-> path, skip |-> skip, top |-> top]
SESSIONS_URL == Url("sessions", 0, 0)
FIELDS_URL   == Url("fields", 0, 0)
SERVICE_URL  == Url("service", 0, 0)
COUNT_URL    == Url("count", 0, 0)

\* getToken(username, password, path) when the POST to path/sessions answers
\* sessionStatus: the token, null, or that path.concat throws on a null path
getToken(username, password, path, stored, sessionStatus) ==
    IF path = NULL THEN [status |-> "exception", token |-> NULL, fetches |-> <<>>]
    ELSE [status  |-> "ok",
          token   |-> IF sessionStatus # OK THEN NULL ELSE issuedToken(stored),
          fetches |-> <<Fetch(SESSIONS_URL, NULL, sessionStatus)>>]

\* storeCredentials(username, password, path, fullPath, timestamp)
storeCredentials(usr, username, password, path, fullPath, timestamp) ==
    [usr EXCEPT !.username = username, !.password = password, !.path = path,
                !.fullPath = fullPath, !.timestamp = timestamp]

\* resetAuth()
resetAuth(usr) == NoSession

\* setToken(): the properties afterwards
setToken(usr, sessionStatus) ==
    LET got == getToken(usr.username, usr.password, usr.path, usr.token, sessionStatus)
    IN  [status  |-> got.status,
         user    |-> IF got.status = "ok" THEN [usr EXCEPT !.token = got.token] ELSE usr,
         fetches |-> got.fetches]

\* isAuthValid(); expired is hours > AUTH_TIMEOUT
isAuthValid(usr, expired) ==
    IF usr.timestamp = NULL THEN [result |-> FALSE, user |-> usr]
    ELSE IF expired THEN [result |-> FALSE, user |-> resetAuth(usr)]
    ELSE [result |-> usr.token # NULL, user |-> usr]

\* validateAndStoreCredentials(username, password, path)
validateAndStoreCredentials(username, password, path, usr, expired, sessionStatus) ==
    LET fullPath == path
        basePath == parseURL(path)[1]
    IN  IF usr.token # NULL
        THEN IF usr.timestamp = NULL
             THEN [result |-> TRUE, user |-> [usr EXCEPT !.timestamp = NOW],
                   fetches |-> <<>>]
             ELSE IF expired
                  THEN [result |-> FALSE, user |-> resetAuth(usr), fetches |-> <<>>]
                  ELSE [result |-> TRUE, user |-> usr, fetches |-> <<>>]
        ELSE LET got == getToken(username, password, basePath, usr.token, sessionStatus)
             IN  IF got.token = NULL
                 THEN [result |-> FALSE, user |-> usr, fetches |-> got.fetches]
                 ELSE [result  |-> TRUE,
                       user    |-> [storeCredentials(usr, username, password, basePath,
                                                     fullPath, NOW)
                                       EXCEPT !.token = got.token],
                       fetches |-> got.fetches]

\* setCredentials(request): the errorCode of its answer
setCredentials(isCredentialsValid) ==
    IF ~isCredentialsValid THEN "INVALID_CREDENTIALS" ELSE "NONE"

\* what the server answers during one call: to the first fetch of a request,
\* to the POST of the stored credentials, and to the fetch after it; bodyIsJson
\* tells whether the body of a response that is not 200 parses as JSON
Answers ==
    { e \in [first : ResponseCodes, session : ResponseCodes, retry : ResponseCodes,
             bodyIsJson : BOOLEAN] :
        /\ e.session # OK => e.retry # OK
        /\ e.first = OK => (e.session = OK /\ e.retry = OK /\ e.bodyIsJson) }

\* testSchema(request): the fetch of the fields, the refresh and the second
\* fetch; a null dscc.path gives a URL that fetch rejects
testSchema(usr, e) ==
    IF usr.path = NULL
    THEN [outcome |-> "exception", user |-> usr, fetches |-> <<>>, status |-> 0]
    ELSE LET f1 == Fetch(FIELDS_URL, usr.token, e.first)
         IN  IF e.first = OK
             THEN [outcome |-> "ok", user |-> usr, fetches |-> <<f1>>, status |-> e.first]
             ELSE LET t  == setToken(usr, e.session)
                      f2 == Fetch(FIELDS_URL, t.user.token, e.retry)
                  IN  [outcome |-> IF e.retry # OK THEN "userError" ELSE "ok",
                       user    |-> t.user,
                       fetches |-> <<f1>> \o t.fetches \o <<f2>>,
                       status  |-> e.retry]

\* the fetches of getAvailableTablesFromURL(URL)
fetchAvailableTables(usr, e) ==
    LET f1 == Fetch(SERVICE_URL, usr.token, e.first)
    IN  IF e.first = OK
        THEN [outcome |-> "ok", user |-> usr, fetches |-> <<f1>>, status |-> e.first]
        ELSE LET t == setToken(usr, e.session)
             IN  IF t.status # "ok"
                 THEN [outcome |-> "exception", user |-> usr, fetches |-> <<f1>>,
                       status |-> e.first]
                 ELSE LET f2 == Fetch(SERVICE_URL, t.user.token, e.retry)
                      IN  [outcome |-> IF e.retry # OK THEN "userError" ELSE "ok",
                           user    |-> t.user,
                           fetches |-> <<f1>> \o t.fetches \o <<f2>>,
                           status  |-> e.retry]

\* getNumberOfRowsInTable(URL, tableName) for a table of count rows: the
\* second fetch is of URL, and the response is parsed whatever its code;
\* counted tells whether the value returned is a number (the service document
\* and an error body have no '@odata.count')
getNumberOfRowsInTable(usr, e, count) ==
    LET f1 == Fetch(COUNT_URL, usr.token, e.first)
    IN  IF e.first = OK
        THEN [outcome |-> "ok", user |-> usr, fetches |-> <<f1>>, status |-> e.first,
              counted |-> TRUE, value |-> count]
        ELSE LET t == setToken(usr, e.session)
             IN  IF t.status # "ok"
                 THEN [outcome |-> "exception", user |-> usr, fetches |-> <<f1>>,
                       status |-> e.first, counted |-> FALSE, value |-> 0]
                 ELSE LET f2 == Fetch(SERVICE_URL, t.user.token, e.retry)
                      IN  [outcome |-> IF e.retry # OK /\ ~e.bodyIsJson
                                       THEN "userError" ELSE "ok",
                           user    |-> t.user,
                           fetches |-> <<f1>> \o t.fetches \o <<f2>>,
                           status  |-> e.retry,
                           counted |-> FALSE, value |-> 0]

\* skip += 50000; top -= 50000
PAGE == 50000

\* the rows [lo, hi) one response to ?$skip=skip&$top=top carries, for a
\* table of total rows: as many as asked for, or at most one page of them
servedRows(skip, top, total, carries) ==
    LET limit == IF carries = "page" /\ top > PAGE THEN PAGE ELSE top
        lo    == IF skip > total THEN total ELSE skip
        hi    == IF limit <= 0 THEN lo
                 ELSE IF skip + limit > total THEN total ELSE skip + limit
    IN  <<lo, IF hi < lo THEN lo ELSE hi>>

RECURSIVE pagingLoop(_, _, _, _, _, _, _, _, _)
\* the do-while of getData from its n-th pass on: request_params, and with it
\* the token of every fetch, was built before the loop; the first fetch of
\* pass failPass answers e.first.  mergedJSON is kept as the list of row
\* ranges pushed.
pagingLoop(usr, header, skip, top, total, carries, n, failPass, e) ==
    LET url    == Url("rows", skip, top)
        first  == IF n = failPass THEN e.first ELSE OK
        f1     == Fetch(url, header, first)
        t      == IF first = OK THEN [status |-> "ok", user |-> usr, fetches |-> <<>>]
                  ELSE setToken(usr, e.session)
        second == IF first = OK THEN <<>> ELSE <<Fetch(url, header, e.retry)>>
        status == IF first = OK THEN OK ELSE e.retry
    IN  IF t.status # "ok"
        THEN [outcome |-> "exception", user |-> usr, fetches |-> <<f1>>, merged |-> <<>>]
        ELSE IF status # OK
        \* JSON.parse throws, or .value is undefined and the spread throws
        THEN [outcome |-> "exception", user |-> t.user,
              fetches |-> <<f1>> \o t.fetches \o second, merged |-> <<>>]
        ELSE LET parsedJSON == servedRows(skip, top, total, carries)
                 length     == parsedJSON[2] - parsedJSON[1]
                 pushed     == IF length > 0 THEN <<parsedJSON>> ELSE <<>>
             IN  IF length # 0 /\ top - PAGE > 0
                 THEN LET rest == pagingLoop(t.user, header, skip + PAGE, top - PAGE,
                                             total, carries, n + 1, failPass, e)
                      IN  [outcome |-> rest.outcome, user |-> rest.user,
                           fetches |-> <<f1>> \o t.fetches \o second \o rest.fetches,
                           merged  |-> IF rest.outcome = "ok" THEN pushed \o rest.merged
                                       ELSE <<>>]
                 ELSE [outcome |-> "ok", user |-> t.user,
                       fetches |-> <<f1>> \o t.fetches \o second, merged |-> pushed]

\* the credentials a user types, and the row parameters of a data request
\* with the size of the table they are asked of
UnitCredentials == [username : {<<"u">>}, password : {<<"p">>}, path : {FormUrl(1)}]

PagingRequests ==
    [startingRow : {0, PAGE}, numberOfRowsToAccess : {0, PAGE, 2 * PAGE + 20000},
     total : {PAGE + 10000, 4 * PAGE}]

RemoteInit ==
    /\ id = 0
    /\ metaDataMap = <<>>
    /\ user = NoSession
    /\ forms = <<1, 1>>
    /\ calls = 0
    /\ call = [op |-> "none"]

\* setCredentials(request); sessionStatus is the server's answer to the
\* username and password of the request
SetCredentials(c, expired, sessionStatus) ==
    /\ calls < MaxRemoteCalls
    /\ calls' = calls + 1
    /\ \E out \in {validateAndStoreCredentials(c.username, c.password, c.path, user,
                                                expired, sessionStatus)} :
         /\ user' = out.user
         /\ call' = [op |-> "setCredentials", stored |-> user, expired |-> expired,
                     sessionStatus |-> sessionStatus, result |-> out.result,
                     errorCode |-> setCredentials(out.result), fetches |-> out.fetches]
    /\ UNCHANGED <<id, metaDataMap, forms>>

\* isAuthValid()
IsAuthValid(expired) ==
    /\ calls < MaxRemoteCalls
    /\ calls' = calls + 1
    /\ \E out \in {isAuthValid(user, expired)} :
         /\ user' = out.user
         /\ call' = [op |-> "isAuthValid", stored |-> user, expired |-> expired,
                     result |-> out.result]
    /\ UNCHANGED <<id, metaDataMap, forms>>

\* testSchema(request)
TestSchema(e) ==
    /\ calls < MaxRemoteCalls
    /\ calls' = calls + 1
    /\ \E out \in {testSchema(user, e)} :
         /\ user' = out.user
         /\ call' = [op |-> "testSchema", answers |-> e, outcome |-> out.outcome,
                     fetches |-> out.fetches]
    /\ UNCHANGED <<id, metaDataMap, forms>>

\* getAvailableTablesFromURL(URL), up to the parse of the response
GetAvailableTables(e) ==
    /\ calls < MaxRemoteCalls
    /\ calls' = calls + 1
    /\ \E out \in {fetchAvailableTables(user, e)} :
         /\ user' = out.user
         /\ call' = [op |-> "getAvailableTablesFromURL", answers |-> e,
                     outcome |-> out.outcome, fetches |-> out.fetches]
    /\ UNCHANGED <<id, metaDataMap, forms>>

\* getNumberOfRowsInTable(URL, tableName)
GetNumberOfRows(e, count) ==
    /\ calls < MaxRemoteCalls
    /\ calls' = calls + 1
    /\ \E out \in {getNumberOfRowsInTable(user, e, count)} :
         /\ user' = out.user
         /\ call' = [op |-> "getNumberOfRowsInTable", answers |-> e,
                     outcome |-> out.outcome, fetches |-> out.fetches,
                     counted |-> out.counted, value |-> out.value]
    /\ UNCHANGED <<id, metaDataMap, forms>>

\* the do-while of getData and what it leaves in mergedJSON
GetDataPages(r, carries, failPass, e) ==
    /\ calls < MaxRemoteCalls
    /\ calls' = calls + 1
    /\ \E out \in {pagingLoop(user, user.token, r.startingRow, r.numberOfRowsToAccess,
                                r.total, carries, 1, failPass, e)} :
         /\ user' = out.user
         /\ call' = [op |-> "getDataPages", request |-> r, carries |-> carries,
                     failPass |-> failPass, answers |-> e, outcome |-> out.outcome,
                     fetches |-> out.fetches, merged |-> out.merged]
    /\ UNCHANGED <<id, metaDataMap, forms>>

RemoteNext ==
    \/ \E c \in UnitCredentials, expired \in BOOLEAN, sessionStatus \in ResponseCodes :
         SetCredentials(c, expired, sessionStatus)
    \/ \E expired \in BOOLEAN : IsAuthValid(expired)
    \/ \E e \in Answers : TestSchema(e)
    \/ \E e \in Answers : GetAvailableTables(e)
    \/ \E e \in Answers, count \in {0, PAGE} : GetNumberOfRows(e, count)
    \/ \E r \in PagingRequests, carries \in {"page", "all"}, failPass \in 0..2,
          e \in Answers :
         GetDataPages(r, carries, failPass, e)

RemoteSpec == RemoteInit /\ [][RemoteNext]_vars

----------------------------------------------------------------------------
(* C25: refresh and retry after a response that is not 200.                *)

\* the last call was one of the functions that fetch from the server
FetchingCall ==
    call.op \in {"testSchema", "getAvailableTablesFromURL", "getNumberOfRowsInTable",
                 "getDataPages"}

\* fetch i of the last call is the first fetch of a request: no POST of the
\* credentials and not the fetch that follows one
FirstFetch(i) ==
    /\ call.fetches[i].url # SESSIONS_URL
    /\ i > 1 => call.fetches[i - 1].url # SESSIONS_URL

\* fetch i is followed by one token refresh and one fetch of the same URL,
\* and the call ends with a user error if that one is not 200 either
RefreshedAndRetried(i) ==
    /\ i + 2 <= Len(call.fetches)
    /\ call.fetches[i + 1].url = SESSIONS_URL
    /\ call.fetches[i + 2].url = call.fetches[i].url
    /\ call.fetches[i + 2].status # OK =>
          (call.outcome = "userError" /\ Len(call.fetches) = i + 2)

\* C25: every remote fetch (field metadata, table list, row count, each data
\* page) that answers with a non-200 status is followed by exactly one token
\* refresh and exactly one retry of the same request; if the retry is also
\* non-200, the operation ends with a user-facing error instead of going on
\* with the failed response.
C25_RefreshAndRetryOnce ==
    FetchingCall =>
        \A i \in 1..Len(call.fetches) :
            (FirstFetch(i) /\ call.fetches[i].status # OK) => RefreshedAndRetried(i)

----------------------------------------------------------------------------
(* C26: what setCredentials answers.                                       *)

\* C26: validateAndStoreCredentials (and so setCredentials answering
\* errorCode NONE) returns true only when the supplied username, password and
\* path are accepted by the server, and returns false for a combination the
\* server rejects, in every state of the stored session: token present or
\* absent, timestamp absent, fresh or expired.
C26_TrueOnlyWhenServerAccepts ==
    call.op = "setCredentials" =>
        /\ call.result => call.sessionStatus = OK
        /\ call.sessionStatus # OK => call.errorCode = "INVALID_CREDENTIALS"

----------------------------------------------------------------------------
(* C30: the rows the paging loop merges.                                   *)

\* the rows [lo, hi) of the table that the request asks for
RequestedRows ==
    LET r    == call.request
        last == r.startingRow + r.numberOfRowsToAccess
        lo   == IF r.startingRow > r.total THEN r.total ELSE r.startingRow
        hi   == IF last > r.total THEN r.total ELSE last
    IN  <<lo, IF hi < lo THEN lo ELSE hi>>

\* the ranges pushed follow one another from lo up to hi
CoversOnceInOrder(merged, lo, hi) ==
    IF hi = lo THEN merged = <<>>
    ELSE /\ Len(merged) > 0
         /\ merged[1][1] = lo
         /\ merged[Len(merged)][2] = hi
         /\ \A k \in 1..(Len(merged) - 1) : merged[k + 1][1] = merged[k][2]

\* C30: getData's paging loop ends with a merged record array that holds each
\* table row with index in [startingRow, startingRow + numberOfRowsToAccess)
\* exactly once and in order: no row is appended twice and none beyond the
\* requested count, whether a single response carries at most the 50000-row
\* page or all the rows asked for in its $top parameter.
C30_EachRowOnceInOrder ==
    (call.op = "getDataPages" /\ call.outcome = "ok") =>
        CoversOnceInOrder(call.merged, RequestedRows[1], RequestedRows[2])

====
